---- MODULE Spec2Model ----
(***************************************************************************)
(* Model of DependencyManager (src/singleton/DependencyManager.hpp) and of *)
(* the DependencyComponent record it stores                                *)
(* (src/singleton/SingletonWithDependency.hpp), and of the                 *)
(* SingletonWithDependency<T> class template that drives it.               *)
(*                                                                         *)
(* The graph is a boost::adjacency_list<vecS, vecS, bidirectionalS>: a     *)
(* vertex descriptor is the index of the vertex in insertion order, and    *)
(* the out-edges of a vertex are kept in a vector in insertion order.      *)
(* Vertex descriptors are 1-based here (0-based in the source).  The edge   *)
(* bundle of singleton::DependencyGraph is boost::no_property.             *)
(***************************************************************************)
EXTENDS Integers, Sequences, FiniteSets, TLC

\* ---------------------------------------------------------------- bounds
MaxIds == 3
\* The largest graph handed to the sweep on its own (SpecBfs).
MaxBfsVertices == 4

\* Component ids (std::size_t hash codes in the source).
Ids == 1..MaxIds
\* The edge bundle of singleton::DependencyGraph and the value the
\* DependencyRegistrar hands to register_dependency.
no_property == "no_property"

\* graph_details::no_halting: the vertex that no predicate matches.
NoVertex == 0

VARIABLES
    m_dependency_graph, \* [vp : Seq(DependencyComponent), out : Seq(Seq(edge))]
    m_vertices_map,     \* function: registered id -> vertex descriptor
    cleanup_log,        \* ids whose cleaner() the latest call entered, in order
    last,               \* the latest call, its arguments and its outcome
    entry,              \* the graph and the id map as the latest call found them
    SingletonWithDependency \* the class template over all its instantiations

vars == <<m_dependency_graph, m_vertices_map, cleanup_log, last, entry,
          SingletonWithDependency>>

\* singleton::registered_dependencies<T>::type: type id -> the ids of the
\* dependencies of the type, in order.
registered_dependencies == SingletonWithDependency.registered_dependencies
\* SingletonWithDependency<T>::built, by type id.
built == SingletonWithDependency.built
\* SingletonWithDependency<T>::pInstance # nullptr, by type id.
pInstance == SingletonWithDependency.pInstance
\* The DepManager calls the latest instance() made, in order.
trace == SingletonWithDependency.trace

\* ---------------------------------------------------------------- helpers
Range(s) == {s[i] : i \in 1..Len(s)}

RECURSIVE Reverse(_)
Reverse(s) == IF s = <<>> THEN <<>> ELSE Append(Reverse(Tail(s)), Head(s))

\* DependencyComponent(id, cleaner): is_deleted(false), id(id).
DependencyComponent(id) == [is_deleted |-> FALSE, id |-> id]

\* vertices(g): the vertex descriptors, in index order.
vertices(g) == 1..Len(g.vp)

\* edge(u, v, g).second
edge(u, v, g) == \E i \in 1..Len(g.out[u]) : g.out[u][i].target = v

\* in_edges(v, g): the (source, position) pairs of the edges entering v.
in_edges(v, g) ==
    UNION {{<<u, i>> : i \in {j \in 1..Len(g.out[u]) : g.out[u][j].target = v}} :
           u \in vertices(g)}

\* add_vertex(prop, g)
add_vertex(prop, g) == [vp |-> Append(g.vp, prop), out |-> Append(g.out, <<>>)]

\* add_edge(u, v, g) followed by the assignment of the edge property.
add_edge(u, v, prop, g) ==
    [g EXCEPT !.out[u] = Append(@, [target |-> v, prop |-> prop])]

\* ------------------------------------------------- breadth_first_search
\* boost::breadth_first_search with a bfs_halting_visitor whose vertex
\* predicate is (v = hv): the start vertex is discovered first, then the
\* queue is drained, the out-edges of each vertex being examined in stored
\* order; a white target is discovered and enqueued.  discover_vertex throws
\* when the predicate holds, which ends the search (halted).
\* `order` is the sequence of discover_vertex calls.
RECURSIVE bfs_out_edges(_, _, _, _, _, _)
RECURSIVE bfs_loop(_, _, _, _)
bfs_out_edges(g, u, i, Q, order, hv) ==
    IF i > Len(g.out[u])
    THEN bfs_loop(g, Q, order, hv)
    ELSE LET v == g.out[u][i].target IN
         IF v \in Range(order)
         THEN bfs_out_edges(g, u, i + 1, Q, order, hv)
         ELSE IF v = hv
         THEN [halted |-> TRUE, order |-> Append(order, v)]
         ELSE bfs_out_edges(g, u, i + 1, Append(Q, v), Append(order, v), hv)

bfs_loop(g, Q, order, hv) ==
    IF Q = <<>>
    THEN [halted |-> FALSE, order |-> order]
    ELSE bfs_out_edges(g, Head(Q), 1, Tail(Q), order, hv)

\* Faulty variant: discover_vertex is not called for the start vertex.
breadth_first_search_skip_start(g, s, hv) == bfs_loop(g, <<s>>, <<s>>, hv)

breadth_first_search(g, s, hv) ==
    IF s = hv
    THEN [halted |-> TRUE, order |-> <<s>>]
    ELSE bfs_loop(g, <<s>>, <<s>>, hv)

\* ---------------------------------------------------------- detect_cycle
\* Faulty variant: the search starts at the source and looks for the target.
detect_cycle_swapped(g, src, dst) == breadth_first_search(g, src, dst).halted

\* Faulty variant: only the target itself and its direct out-edges are examined.
detect_cycle_direct(g, src, dst) == src = dst \/ edge(dst, src, g)

\* Faulty variant: the exception of the halting visitor is swallowed.
detect_cycle_never(g, src, dst) == FALSE

\* TRUE iff detect_cycle() throws: the BFS started at the target of the
\* dependency discovers its source.
detect_cycle(g, src, dst) == breadth_first_search(g, dst, src).halted

\* --------------------------------------------------------------- cleanup
\* Faulty variant: the deletion stack is filled by a depth-first search.
RECURSIVE dfs_out_edges(_, _, _, _)
dfs_out_edges(g, u, i, order) ==
    IF i > Len(g.out[u]) THEN order
    ELSE LET v == g.out[u][i].target
         IN dfs_out_edges(g, u, i + 1,
                IF v \in Range(order) THEN order
                ELSE dfs_out_edges(g, v, 1, Append(order, v)))

get_deletion_stack_dfs(g, root) == dfs_out_edges(g, root, 1, <<root>>)

\* get_deletion_stack(root, keep_all): the discover order of a BFS from root.
get_deletion_stack(g, root) == breadth_first_search(g, root, NoVertex).order

is_root_dependency(g, v) == in_edges(v, g) = {}

\* perform_deletion_from(v): the vertices handed to the Deleter, in order.
perform_deletion_from(g, v) == Reverse(get_deletion_stack(g, v))

\* clear(): the vertices handed to the Deleter over the whole loop on
\* vertices(g), starting at vertex v.
RECURSIVE clear_from(_, _)
clear_from(g, v) ==
    IF v > Len(g.vp) THEN <<>>
    ELSE (IF is_root_dependency(g, v) THEN perform_deletion_from(g, v) ELSE <<>>)
         \o clear_from(g, v + 1)

\* DependencyComponent::clear(): cleaner(); is_deleted = false;
DependencyComponent_clear(c) == [c EXCEPT !.is_deleted = FALSE]

\* The records after the Deleter has run to completion on calls[1..n].
RECURSIVE apply_clear(_, _, _)
apply_clear(vp, calls, n) ==
    IF n = 0 THEN vp
    ELSE LET p == apply_clear(vp, calls, n - 1)
         IN [p EXCEPT ![calls[n]] = DependencyComponent_clear(@)]

\* ------------------------------------------------------------------ Init
\* A program that instantiates SingletonWithDependency for no type: there
\* is no static and no declaration, and instance() is never called.
NoSingleton ==
    SingletonWithDependency = [registered_dependencies |-> <<>>, built |-> <<>>,
                               pInstance |-> <<>>, trace |-> <<>>]

Init ==
    /\ m_dependency_graph = [vp |-> <<>>, out |-> <<>>]
    /\ m_vertices_map = <<>>
    /\ cleanup_log = <<>>
    /\ last = [op |-> "none", src |-> 0, dst |-> 0, res |-> "ok"]
    /\ entry = [graph |-> [vp |-> <<>>, out |-> <<>>], map |-> <<>>]
    /\ NoSingleton

\* What a call finds on entry.
at_entry == [graph |-> m_dependency_graph, map |-> m_vertices_map]

\* --------------------------------------------------------------- actions
\* Faulty variant: the lookup in m_vertices_map is skipped.
register_component_nocheck(id) ==
    /\ m_dependency_graph' = add_vertex(DependencyComponent(id), m_dependency_graph)
    /\ m_vertices_map' =
          IF id \in DOMAIN m_vertices_map THEN m_vertices_map
          ELSE (id :> (Len(m_dependency_graph.vp) + 1)) @@ m_vertices_map
    /\ last' = [op |-> "register_component", src |-> id, dst |-> 0, res |-> "ok"]
    /\ cleanup_log' = <<>>
    /\ entry' = at_entry

\* register_component(id, DependencyComponent(id, cleaner))
register_component(id) ==
    /\ IF id \notin DOMAIN m_vertices_map
       THEN /\ m_dependency_graph' = add_vertex(DependencyComponent(id), m_dependency_graph)
            /\ m_vertices_map' = (id :> (Len(m_dependency_graph.vp) + 1)) @@ m_vertices_map
            /\ last' = [op |-> "register_component", src |-> id, dst |-> 0, res |-> "ok"]
       ELSE \* throw "Object is already registered"
            /\ UNCHANGED <<m_dependency_graph, m_vertices_map>>
            /\ last' = [op |-> "register_component", src |-> id, dst |-> 0, res |-> "AlreadyExists"]
    /\ cleanup_log' = <<>>
    /\ entry' = at_entry

\* Faulty variant: the lookups are joined with && instead of ||, so that a call
\* with exactly one unregistered id goes on to the edge lookup, which answers
\* that the dependency exists.
register_dependency_checks_and(src_id, dst_id) ==
    IF src_id \notin DOMAIN m_vertices_map /\ dst_id \notin DOMAIN m_vertices_map
    THEN "UnknownId"
    ELSE IF src_id \notin DOMAIN m_vertices_map \/ dst_id \notin DOMAIN m_vertices_map
    THEN "DuplicateEdge"
    ELSE IF edge(m_vertices_map[src_id], m_vertices_map[dst_id], m_dependency_graph)
    THEN "DuplicateEdge"
    ELSE IF detect_cycle(m_dependency_graph, m_vertices_map[src_id], m_vertices_map[dst_id])
    THEN "WouldCycle"
    ELSE "ok"

\* The checks register_dependency makes before it adds the edge, in order, and
\* the exception they end in ("ok": none).
register_dependency_checks(src_id, dst_id) ==
    IF src_id \notin DOMAIN m_vertices_map \/ dst_id \notin DOMAIN m_vertices_map
    THEN "UnknownId"      \* "... is not registered in the graph."
    ELSE IF edge(m_vertices_map[src_id], m_vertices_map[dst_id], m_dependency_graph)
    THEN "DuplicateEdge"  \* "The described dependency is already registered."
    ELSE IF detect_cycle(m_dependency_graph, m_vertices_map[src_id], m_vertices_map[dst_id])
    THEN "WouldCycle"     \* "... would produce a cycle in the dependency graph."
    ELSE "ok"

\* Faulty variant: the edge is added before detect_cycle() is called and is
\* left in the graph when detect_cycle() throws.
register_dependency_edge_first(src_id, dst_id) ==
    \E res \in {register_dependency_checks(src_id, dst_id)} :
       /\ m_dependency_graph' =
            IF res \in {"ok", "WouldCycle"}
            THEN add_edge(m_vertices_map[src_id], m_vertices_map[dst_id], no_property, m_dependency_graph)
            ELSE m_dependency_graph
       /\ last' = [op |-> "register_dependency", src |-> src_id, dst |-> dst_id, res |-> res]
       /\ cleanup_log' = <<>>
       /\ entry' = at_entry
       /\ UNCHANGED m_vertices_map

\* register_dependency(src_id, dst_id, no_property): dst_id depends on src_id
register_dependency(src_id, dst_id) ==
    \E res \in {register_dependency_checks(src_id, dst_id)} :
       /\ m_dependency_graph' =
            IF res = "ok"
            THEN add_edge(m_vertices_map[src_id], m_vertices_map[dst_id], no_property, m_dependency_graph)
            ELSE m_dependency_graph
       /\ last' = [op |-> "register_dependency", src |-> src_id, dst |-> dst_id, res |-> res]
       /\ cleanup_log' = <<>>
       /\ entry' = at_entry
       /\ UNCHANGED m_vertices_map

\* clear(); t is the position, among the cleaner() calls the sweep makes, of
\* the first one that throws (0: none throws).  An exception thrown by a
\* cleaner leaves DependencyComponent::clear before the flag is assigned and
\* propagates out of perform_deletion_from and clear().
clear ==
    \E calls \in {clear_from(m_dependency_graph, 1)} :
       \E t \in 0..Len(calls) :
        LET entered == IF t = 0 THEN Len(calls) ELSE t
            completed == IF t = 0 THEN Len(calls) ELSE t - 1
        IN /\ cleanup_log' = [i \in 1..entered |-> m_dependency_graph.vp[calls[i]].id]
           /\ m_dependency_graph' =
                 [m_dependency_graph EXCEPT !.vp = apply_clear(@, calls, completed)]
           /\ last' = [op |-> "clear", src |-> 0, dst |-> 0,
                       res |-> IF t = 0 THEN "ok" ELSE "CleanerThrew"]
           /\ entry' = at_entry
           /\ UNCHANGED m_vertices_map

\* The registration calls alone.
NextReg ==
    \/ \E id \in Ids : register_component(id) /\ UNCHANGED SingletonWithDependency
    \/ \E s \in Ids, d \in Ids : register_dependency(s, d) /\ UNCHANGED SingletonWithDependency

Next ==
    \/ \E id \in Ids : register_component(id) /\ UNCHANGED SingletonWithDependency
    \/ \E s \in Ids, d \in Ids : register_dependency(s, d) /\ UNCHANGED SingletonWithDependency
    \/ clear /\ UNCHANGED SingletonWithDependency

Spec == Init /\ [][Next]_vars

\* Histories made of register_component / register_dependency calls only.
SpecReg == Init /\ [][NextReg]_vars

\* ------------------------------------------ dependencies between n components
\* The state after register_component(1), ..., register_component(n).
InitDep ==
    \E n \in 0..MaxIds :
        /\ m_dependency_graph = [vp |-> [v \in 1..n |-> DependencyComponent(v)],
                                 out |-> [v \in 1..n |-> <<>>]]
        /\ m_vertices_map = [id \in 1..n |-> id]
        /\ cleanup_log = <<>>
        /\ last = IF n = 0
                  THEN [op |-> "none", src |-> 0, dst |-> 0, res |-> "ok"]
                  ELSE [op |-> "register_component", src |-> n, dst |-> 0, res |-> "ok"]
        /\ entry = [graph |-> [vp |-> [v \in 1..(n - 1) |-> DependencyComponent(v)],
                               out |-> [v \in 1..(n - 1) |-> <<>>]],
                    map |-> [id \in 1..(n - 1) |-> id]]
        /\ NoSingleton

NextDep ==
    \E s \in Ids, d \in Ids : register_dependency(s, d) /\ UNCHANGED SingletonWithDependency

\* Histories in which the components are registered first, in the order of
\* their ids, and any register_dependency calls follow.  register_component
\* appends a vertex without edges and reads nothing but the id map, and no
\* operation compares ids otherwise than for equality, so the graphs and the
\* outcomes of these histories are those of all histories up to the numbering
\* of the vertices and the renaming of the ids.
SpecDep == InitDep /\ [][NextDep]_vars

\* ------------------------------------------------ the sweep on given graphs
\* The sequences that list some elements of S, each at most once.
PermSeqs(S) ==
    UNION {{q \in [1..k -> S] : \A i \in 1..k, j \in 1..k : q[i] = q[j] => i = j} :
           k \in 0..Cardinality(S)}

\* The out-edge vectors a vertex can have towards the vertices of S.
EdgeLists(S) ==
    {[i \in 1..Len(q) |-> [target |-> q[i], prop |-> no_property]] : q \in PermSeqs(S)}

\* The out-edge vectors of n vertices whose edges all lead to a vertex
\* registered earlier.  Every graph register_dependency can build is one of
\* these up to the numbering of its vertices (it is acyclic, and any order of
\* the out-edges of a vertex can be obtained by registering them in that
\* order), and breadth_first_search does not look at the numbering.
RECURSIVE OutEdgeVectors(_)
OutEdgeVectors(n) ==
    IF n = 0 THEN {<<>>}
    ELSE {Append(o, l) : o \in OutEdgeVectors(n - 1), l \in EdgeLists(1..(n - 1))}

\* n components registered in the order of their ids, with those edges.
InitBfs ==
    \E n \in 1..MaxBfsVertices : \E o \in OutEdgeVectors(n) :
        /\ m_dependency_graph = [vp |-> [v \in 1..n |-> DependencyComponent(v)], out |-> o]
        /\ m_vertices_map = [id \in 1..n |-> id]
        /\ cleanup_log = <<>>
        /\ last = [op |-> "none", src |-> 0, dst |-> 0, res |-> "ok"]
        /\ entry = [graph |-> [vp |-> [v \in 1..n |-> DependencyComponent(v)], out |-> o],
                    map |-> [id \in 1..n |-> id]]
        /\ NoSingleton

\* clear() called on each of these graphs.
NextBfs == clear /\ UNCHANGED SingletonWithDependency

SpecBfs == InitBfs /\ [][NextBfs]_vars

\* ------------------------------------------------- graph-theoretic notions
\* Defined on the edge set alone, independently of breadth_first_search.
Edges(g) == UNION {{<<u, g.out[u][i].target>> : i \in 1..Len(g.out[u])} : u \in vertices(g)}

Successors(E, S) == {e[2] : e \in {d \in E : d[1] \in S}}

RECURSIVE Closure(_, _)
Closure(E, S) ==
    LET N == S \cup Successors(E, S)
    IN IF N = S THEN S ELSE Closure(E, N)

\* v is reached from u through zero or more edges / one or more edges.
ReachesStar(g, u, v) == v \in Closure(Edges(g), {u})
ReachesPlus(g, u, v) == LET E == Edges(g) IN v \in Closure(E, Successors(E, {u}))

Registered == DOMAIN m_vertices_map
IdOf(v) == m_dependency_graph.vp[v].id
NumEdges(g) == Cardinality(UNION {{<<w, j>> : j \in 1..Len(g.out[w])} : w \in vertices(g)})

\* ------------------------------------------------ SingletonWithDependency
\* The state a call of instance() works on: the graph and the id map of
\* DepManager::instance(), the pInstance statics, the DepManager calls made so
\* far and the exception in flight ("none": none).
\* register_component(id, ...) as called from do_registration().
DepManager_register_component(st, id) ==
    IF id \notin DOMAIN st.map
    THEN [st EXCEPT
            !.graph = add_vertex(DependencyComponent(id), st.graph),
            !.map = (id :> (Len(st.graph.vp) + 1)) @@ st.map,
            !.trace = Append(st.trace, [op |-> "register_component", src |-> id,
                                        dst |-> 0, res |-> "ok"])]
    ELSE [st EXCEPT
            !.trace = Append(st.trace, [op |-> "register_component", src |-> id,
                                        dst |-> 0, res |-> "AlreadyExists"]),
            !.exc = "AlreadyExists"]

\* The checks of register_dependency on the graph g and the id map m.
DepManager_checks(g, m, src_id, dst_id) ==
    IF src_id \notin DOMAIN m \/ dst_id \notin DOMAIN m
    THEN "UnknownId"
    ELSE IF edge(m[src_id], m[dst_id], g)
    THEN "DuplicateEdge"
    ELSE IF detect_cycle(g, m[src_id], m[dst_id])
    THEN "WouldCycle"
    ELSE "ok"

\* register_dependency(src_id, dst_id, no_property) as called from the
\* DependencyRegistrar.
DepManager_register_dependency(st, src_id, dst_id) ==
    LET res == DepManager_checks(st.graph, st.map, src_id, dst_id)
        call == [op |-> "register_dependency", src |-> src_id, dst |-> dst_id, res |-> res]
    IN IF res = "ok"
       THEN [st EXCEPT
               !.graph = add_edge(st.map[src_id], st.map[dst_id], no_property, st.graph),
               !.trace = Append(st.trace, call)]
       ELSE [st EXCEPT !.trace = Append(st.trace, call), !.exc = res]

RECURSIVE SingletonWithDependency_instance(_, _)
RECURSIVE for_each(_, _, _)

\* Faulty variant: the dependency is registered without instance() being
\* called on its type first.
DependencyRegistrar_unforced(T, U, st) == DepManager_register_dependency(st, U, T)

\* DependencyRegistrar<T>::operator()(wrapped_type<U>)
DependencyRegistrar(T, U, st) ==
    LET forced == SingletonWithDependency_instance(U, st)
    IN IF forced.exc # "none" THEN forced
       ELSE DepManager_register_dependency(forced, U, T)

\* boost::mpl::for_each<WrappedDependencyList>(DependencyRegistrar<T>()), from
\* the i-th type of the list on.
for_each(T, i, st) ==
    IF i > Len(registered_dependencies[T]) THEN st
    ELSE LET done == DependencyRegistrar(T, registered_dependencies[T][i], st)
         IN IF done.exc # "none" THEN done ELSE for_each(T, i + 1, done)

\* do_registration(), the body of the constructor of SingletonWithDependency<T>.
do_registration(T, st) ==
    LET registered == DepManager_register_component(st, T)
    IN IF registered.exc # "none" THEN registered ELSE for_each(T, 1, registered)

\* SingletonWithDependency<T>::instance(): pInstance is assigned when the
\* constructor returns; no statement assigns built.
SingletonWithDependency_instance(T, st) ==
    IF ~built[T]
    THEN LET constructed == do_registration(T, st)
         IN IF constructed.exc # "none" THEN constructed
            ELSE [constructed EXCEPT !.pInstance[T] = TRUE]
    ELSE st

\* A call of SingletonWithDependency<T>::instance() from outside the class.
instance(T) ==
    \E st \in {SingletonWithDependency_instance(T,
                  [graph |-> m_dependency_graph, map |-> m_vertices_map,
                   pInstance |-> pInstance, trace |-> <<>>, exc |-> "none"])} :
       /\ m_dependency_graph' = st.graph
       /\ m_vertices_map' = st.map
       /\ SingletonWithDependency' =
             [SingletonWithDependency EXCEPT !.pInstance = st.pInstance, !.trace = st.trace]
       /\ last' = [op |-> "instance", src |-> T, dst |-> 0,
                   res |-> IF st.exc = "none" THEN "ok" ELSE st.exc]
       /\ cleanup_log' = <<>>
       /\ entry' = at_entry

\* The declarations: T -> U when U is in registered_dependencies<T>::type.
Declared(decl) == {<<T, decl[T][i]>> : <<T, i>> \in
                      UNION {{<<X, j>> : j \in 1..Len(decl[X])} : X \in Ids}}

\* The specializations of registered_dependencies for the types 1..n, each
\* list naming types other than its own, each at most once.
RECURSIVE Declarations(_)
Declarations(n) ==
    IF n = 0 THEN {<<>>}
    ELSE {Append(decl, l) : decl \in Declarations(n - 1), l \in PermSeqs(Ids \ {n})}

\* Those in which no type depends on itself through one or more declarations.
AcyclicDeclarations ==
    {decl \in Declarations(MaxIds) :
        \E D \in {Declared(decl)} :
            \A T \in Ids : T \notin Closure(D, Successors(D, {T}))}

InitSingleton ==
    /\ m_dependency_graph = [vp |-> <<>>, out |-> <<>>]
    /\ m_vertices_map = <<>>
    /\ cleanup_log = <<>>
    /\ last = [op |-> "none", src |-> 0, dst |-> 0, res |-> "ok"]
    /\ entry = [graph |-> [vp |-> <<>>, out |-> <<>>], map |-> <<>>]
    /\ \E decl \in AcyclicDeclarations :
          SingletonWithDependency =
             [registered_dependencies |-> decl, built |-> [T \in Ids |-> FALSE],
              pInstance |-> [T \in Ids |-> FALSE], trace |-> <<>>]

NextSingleton == \E T \in Ids : instance(T)

\* Programs that reach the DepManager through instance() only.
SpecSingleton == InitSingleton /\ [][NextSingleton]_vars

\* a's cleaner is entered, and before every entry of b's cleaner.
CleanedBefore(log, a, b) ==
    \E i \in 1..Len(log) :
        /\ log[i] = a
        /\ \A j \in 1..Len(log) : log[j] = b => i < j

Invocations(log, a) == Cardinality({i \in 1..Len(log) : log[i] = a})

IsRegistration(l) == l.op \in {"register_component", "register_dependency"}

\* ===================================================================== C1
\* C1: after any sequence of register_component / register_dependency calls,
\* successful or failed, no vertex of the dependency graph reaches itself
\* through one or more edges.
C1_Acyclic ==
    \A v \in vertices(m_dependency_graph) :
        ~ReachesPlus(m_dependency_graph, v, v)

\* A dependency that would close a cycle of length >= 2 has just been refused
\* on a graph that already holds two edges.
C1_Witness ==
    /\ last.op = "register_dependency"
    /\ last.res = "WouldCycle"
    /\ last.src # last.dst
    /\ NumEdges(m_dependency_graph) >= 2

\* ===================================================================== C2
\* C2 (as claimed): when clear() has returned, for every edge (u, v) of the
\* graph (v depends on u) the cleaner of v was entered before any entry of the
\* cleaner of u.
C2_TeardownRespectsEdges ==
    (last.op = "clear" /\ last.res = "ok") =>
        \A e \in Edges(m_dependency_graph) :
            CleanedBefore(cleanup_log, IdOf(e[2]), IdOf(e[1]))

\* ===================================================================== C3
\* C3 (as claimed): within one clear() no component's cleaner is entered more
\* than once.
C3_CleanupAtMostOnce ==
    last.op = "clear" =>
        \A id \in Registered : Invocations(cleanup_log, id) <= 1

\* ===================================================================== C4
\* C4 (as claimed): when clear() has returned, every registered component had
\* its cleaner entered and its state flag reads CleanedUp (is_deleted).
C4_TeardownCoverage ==
    (last.op = "clear" /\ last.res = "ok") =>
        \A v \in vertices(m_dependency_graph) :
            /\ IdOf(v) \in Range(cleanup_log)
            /\ m_dependency_graph.vp[v].is_deleted

\* ===================================================================== C5
\* C5: for ids a and b registered when register_dependency(a, b) is called,
\* the call fails with the cycle error if and only if b reaches a through the
\* edges present at that time (a = b included: b reaches itself through no
\* edge).
C5_CycleRejectionExact ==
    (/\ last.op = "register_dependency"
     /\ last.src \in DOMAIN entry.map
     /\ last.dst \in DOMAIN entry.map) =>
        ((last.res = "WouldCycle") <=>
            ReachesStar(entry.graph, entry.map[last.dst], entry.map[last.src]))

\* A dependency has just been refused whose target reaches its source only
\* through an intermediate vertex.
C5_Witness ==
    /\ last.op = "register_dependency"
    /\ last.res = "WouldCycle"
    /\ last.src \in Registered /\ last.dst \in Registered
    /\ last.src # last.dst
    /\ ~edge(m_vertices_map[last.dst], m_vertices_map[last.src], m_dependency_graph)

\* ===================================================================== C6
\* C6: a register_component or register_dependency call that fails leaves the
\* graph (vertices, records, edges, edge properties) and the id map as they
\* were before the call.
C6_FailedRegistrationChangesNothing ==
    (IsRegistration(last) /\ last.res # "ok") =>
        /\ m_dependency_graph = entry.graph
        /\ m_vertices_map = entry.map

\* A registration call has just failed on a graph that holds an edge.
C6_Witness ==
    /\ IsRegistration(last)
    /\ last.res \in {"AlreadyExists", "UnknownId", "DuplicateEdge", "WouldCycle"}
    /\ NumEdges(m_dependency_graph) >= 1
    /\ Len(m_dependency_graph.vp) >= 2

\* ===================================================================== C7
\* C7 (as claimed): the call that follows a clear() fails with ShutdownAlready,
\* changes neither the graph nor the id map and enters no cleaner.
C7_ClosedAfterShutdown ==
    [][last.op = "clear" =>
          /\ last'.res = "ShutdownAlready"
          /\ m_dependency_graph' = m_dependency_graph
          /\ m_vertices_map' = m_vertices_map
          /\ cleanup_log' = <<>>]_vars

\* ===================================================================== C8
\* C8 (as claimed): whatever cleaners fail, clear() enters the cleaner of every
\* registered component.
C8_SweepSurvivesFailure ==
    last.op = "clear" => \A id \in Registered : id \in Range(cleanup_log)

\* ===================================================================== C9
\* C9: register_component(id) succeeds iff id is not registered; on success
\* one vertex is appended, carrying a Live record for id, mapped from id, with
\* no incident edge, every other vertex, mapping and edge being unchanged; on a
\* known id it fails with AlreadyExists.  The id map is injective throughout.
MapInjective(m) == \A a \in DOMAIN m, b \in DOMAIN m : m[a] = m[b] => a = b

C9_RegisterComponent ==
    /\ MapInjective(m_vertices_map)
    /\ last.op = "register_component" =>
         LET id == last.src
             g == entry.graph
             n == Len(g.vp)
         IN /\ (last.res = "ok") <=> (id \notin DOMAIN entry.map)
            /\ (id \in DOMAIN entry.map) => last.res = "AlreadyExists"
            /\ (last.res = "ok") =>
                 /\ Len(m_dependency_graph.vp) = n + 1
                 /\ \A v \in 1..n : /\ m_dependency_graph.vp[v] = g.vp[v]
                                    /\ m_dependency_graph.out[v] = g.out[v]
                 /\ m_dependency_graph.vp[n + 1] = [is_deleted |-> FALSE, id |-> id]
                 /\ m_dependency_graph.out[n + 1] = <<>>
                 /\ \A e \in Edges(m_dependency_graph) : e[1] # n + 1 /\ e[2] # n + 1
                 /\ DOMAIN m_vertices_map = DOMAIN entry.map \cup {id}
                 /\ m_vertices_map[id] = n + 1
                 /\ \A o \in DOMAIN entry.map : m_vertices_map[o] = entry.map[o]

\* A component has just been registered next to two others joined by an edge.
C9_Witness ==
    /\ last.op = "register_component"
    /\ last.res = "ok"
    /\ Len(m_dependency_graph.vp) >= 3
    /\ NumEdges(m_dependency_graph) >= 1

\* ==================================================================== C10
\* C10 (as claimed): no ordered pair of vertices carries two edges, and when
\* register_dependency(u, v) has answered DuplicateEdge the clear() that
\* follows enters the cleaner of v, then that of u, once each.
EdgeUnique(g) ==
    \A u \in vertices(g) : \A i \in 1..Len(g.out[u]), j \in 1..Len(g.out[u]) :
        g.out[u][i].target = g.out[u][j].target => i = j

C10_DuplicateEdgeThenShutdown ==
    [][/\ EdgeUnique(m_dependency_graph')
       /\ (/\ last.op = "register_dependency" /\ last.res = "DuplicateEdge"
           /\ last'.op = "clear" /\ last'.res = "ok")
          => /\ Invocations(cleanup_log', last.dst) = 1
             /\ Invocations(cleanup_log', last.src) = 1
             /\ CleanedBefore(cleanup_log', last.dst, last.src)]_vars

\* ==================================================================== C11
\* Which side of register_dependency(s, d) is not registered in the current
\* state.
UnknownSide(s, d) ==
    IF s \notin Registered /\ d \notin Registered THEN "both"
    ELSE IF s \notin Registered THEN "src"
    ELSE IF d \notin Registered THEN "dst"
    ELSE "none"

CompletedCleanups ==
    IF last.res = "ok" THEN Len(cleanup_log) ELSE Len(cleanup_log) - 1

\* C12 (as claimed): once clear() has run a component's cleaner to completion,
\* the component's state flag reads cleaned (is_deleted).
C12_CleanedUpIsTerminal ==
    last.op = "clear" =>
        \A i \in 1..CompletedCleanups :
            m_dependency_graph.vp[m_vertices_map[cleanup_log[i]]].is_deleted

\* ==================================================================== C14
\* The number of edges of a shortest path from the vertices of S to x, k being
\* the distance already covered (x is reachable from S).
RECURSIVE Distance(_, _, _, _)
Distance(E, S, x, k) ==
    IF x \in S THEN k ELSE Distance(E, S \cup Successors(E, S), x, k + 1)

LayerOrdered(g, v, o) ==
    LET E == Edges(g)
    IN \A i \in 1..Len(o), j \in 1..Len(o) :
          i < j => Distance(E, {v}, o[i], 0) <= Distance(E, {v}, o[j], 0)

\* C14: for every vertex v, the deletion stack built from v lists exactly the
\* vertices reachable from v through out-edges, v first, each once, and a
\* vertex at BFS distance k before every vertex at distance k + 1.
C14_DeletionStackIsBfs ==
    \A v \in vertices(m_dependency_graph) :
        LET o == get_deletion_stack(m_dependency_graph, v)
        IN /\ Range(o) = Closure(Edges(m_dependency_graph), {v})
           /\ o[1] = v
           /\ \A i \in 1..Len(o), j \in 1..Len(o) : o[i] = o[j] => i = j
           /\ LayerOrdered(m_dependency_graph, v, o)

\* clear() has swept a graph in which some vertex reaches three others, two of
\* them at distance 1, one of these having an edge to the third, at distance 2.
C14_Witness ==
    /\ last.op = "clear"
    /\ \E v \in vertices(m_dependency_graph) :
          LET E == Edges(m_dependency_graph)
              o == get_deletion_stack(m_dependency_graph, v)
          IN /\ Len(o) = 4
             /\ Distance(E, {v}, o[2], 0) = 1
             /\ Distance(E, {v}, o[3], 0) = 1
             /\ Distance(E, {v}, o[4], 0) = 2
             /\ <<o[2], o[4]>> \in E

\* ==================================================================== C15
\* C15: whenever a component is registered, some vertex has no in-edge, and
\* the sweep clear() makes from it enters at least one cleaner.
C15_SomeRoot ==
    Len(m_dependency_graph.vp) >= 1 =>
        \E v \in vertices(m_dependency_graph) :
            /\ is_root_dependency(m_dependency_graph, v)
            /\ perform_deletion_from(m_dependency_graph, v) # <<>>

\* Every id is registered, a dependency has just been added and a single root
\* is left.
C15_Witness ==
    /\ last.op = "register_dependency"
    /\ last.res = "ok"
    /\ Registered = Ids
    /\ Cardinality({v \in vertices(m_dependency_graph) :
                       is_root_dependency(m_dependency_graph, v)}) = 1

\* ==================================================================== C18
\* C18: register_dependency(a, a) on a registered id a fails with the cycle
\* error, and no edge of the graph leads from a vertex to itself.
C18_SelfDependencyRejected ==
    /\ (/\ last.op = "register_dependency"
        /\ last.src = last.dst
        /\ last.src \in DOMAIN entry.map) => last.res = "WouldCycle"
    /\ \A v \in vertices(m_dependency_graph) : ~edge(v, v, m_dependency_graph)

\* A self-dependency has just been refused on a vertex that has both an
\* in-edge and an out-edge.
C18_Witness ==
    /\ last.op = "register_dependency"
    /\ last.src = last.dst
    /\ last.res = "WouldCycle"
    /\ \E e \in Edges(m_dependency_graph) : e[1] = m_vertices_map[last.src]
    /\ \E e \in Edges(m_dependency_graph) : e[2] = m_vertices_map[last.src]

\* ==================================================================== C19
\* register_dependency's checks on graph g and id map m, with the cycle search
\* made before the lookup of the edge.
ChecksCycleFirst(g, m, src_id, dst_id) ==
    IF src_id \notin DOMAIN m \/ dst_id \notin DOMAIN m
    THEN "UnknownId"
    ELSE IF ReachesStar(g, m[dst_id], m[src_id])
    THEN "WouldCycle"
    ELSE IF <<m[src_id], m[dst_id]>> \in Edges(g)
    THEN "DuplicateEdge"
    ELSE "ok"

\* C19: no edge (src, dst) exists while dst reaches src, and the outcome every
\* register_dependency call reports is the one the same checks give on the
\* graph the call found when the cycle search comes before the edge lookup.
C19_FailuresExclusive ==
    /\ \E E \in {Edges(m_dependency_graph)} :
          \A e \in E : e[1] \notin Closure(E, {e[2]})
    /\ last.op = "register_dependency" =>
          last.res = ChecksCycleFirst(entry.graph, entry.map, last.src, last.dst)

\* The graph holds a registered edge (DuplicateEdge on a new call) and a pair
\* whose dependency would close a cycle through two edges (WouldCycle).
C19_Witness ==
    /\ last.op = "register_dependency"
    /\ last.res = "DuplicateEdge"
    /\ \E s \in Registered, d \in Registered :
          /\ ChecksCycleFirst(m_dependency_graph, m_vertices_map, s, d) = "WouldCycle"
          /\ s # d
          /\ <<m_vertices_map[d], m_vertices_map[s]>> \notin Edges(m_dependency_graph)

\* ==================================================================== C16
\* The ids registered before the i-th DepManager call of the latest instance().
RegisteredBefore(i) ==
    DOMAIN entry.map \cup
    {trace[j].src : j \in {k \in 1..(i - 1) : /\ trace[k].op = "register_component"
                                               /\ trace[k].res = "ok"}}

\* C16: under an acyclic declaration of the dependencies, every
\* register_dependency(dep_id, self_id) call that instance() makes finds both
\* ids registered by an earlier register_component call, and none ends in the
\* unknown-id error.
C16_HelperRegistersBothFirst ==
    /\ \A i \in 1..Len(trace) :
          trace[i].op = "register_dependency" =>
              /\ trace[i].src \in RegisteredBefore(i)
              /\ trace[i].dst \in RegisteredBefore(i)
              /\ trace[i].res # "UnknownId"
    /\ last.op = "instance" => last.res # "UnknownId"

\* instance() has just returned after constructing a type, a dependency of it
\* and a dependency of that dependency, and registering both dependencies.
C16_Witness ==
    /\ last.op = "instance"
    /\ last.res = "ok"
    /\ \E i \in 1..Len(trace), j \in 1..Len(trace) :
          /\ i < j
          /\ trace[i].op = "register_dependency" /\ trace[i].res = "ok"
          /\ trace[j].op = "register_dependency" /\ trace[j].res = "ok"
          /\ trace[i].dst = trace[j].src
          /\ trace[j].dst = last.src

\* ==================================================================== C17
\* C17: whatever instance() calls are made, register_component is never
\* called for an id that is registered, and no instance() call ends in the
\* already-registered error.
C17_RegisteredOnce ==
    /\ last.res # "AlreadyExists"
    /\ \A i \in 1..Len(trace) :
          trace[i].op = "register_component" => trace[i].src \notin RegisteredBefore(i)

====
